---- MODULE Spec2Model ----
(***************************************************************************)
(* Model of compact_logs (log_compactor_Version4.py).                      *)
(*                                                                         *)
(* Text is modelled as it is in the program: a string is a sequence of     *)
(* one-character strings, a file is a sequence of raw lines.  datetime     *)
(* values are modelled by the number of seconds after 2024-01-01T10:00:00; *)
(* the input timestamps of the model all lie within MaxTs seconds of it.   *)
(***************************************************************************)
EXTENDS Integers, Sequences, FiniteSets, TLC

\* ---------------------------------------------------------------- bounds
MaxLines == 3       \* lines in the input file
MaxTs == 2          \* largest timestamp offset (seconds) in the input
MaxWindow == 1      \* largest dedup_window_seconds
MaxThreshold == 2   \* largest error_threshold

\* Optional results: None is the empty tuple, Some(x) a one-element tuple.
None == <<>>
Some(x) == <<x>>
IsNone(r) == Len(r) = 0
Value(r) == r[1]

\* ---------------------------------------------------------------- characters
UpperChars == {"A", "C", "E", "F", "I", "L", "N", "O", "R", "T"}
LowerChars == {"a", "b", "c", "d", "e", "g", "i", "l", "n", "o", "r", "s", "t",
               "u", "v", "x"}
DigitChars == <<"0", "1", "2", "3", "4", "5", "6", "7", "8", "9">>
Whitespace == {" ", "\n"}

\* The characters of the model in code point order (str comparison order).
Alphabet ==
    <<"\n", " ", "(", ")", "+", "-", "0", "1", "2", "3", "4", "5", "6", "7",
      "8", "9", ":", "=", "A", "C", "E", "F", "I", "L", "N", "O", "R", "T",
      "_", "a", "b", "c", "d", "e", "g", "i", "l", "n", "o", "r", "s", "t",
      "u", "v", "x", "~">>

Ord(c) == CHOOSE k \in 1..Len(Alphabet) : Alphabet[k] = c

IsDigit(c) == \E k \in 1..10 : DigitChars[k] = c

DigitValue(c) == (CHOOSE k \in 1..10 : DigitChars[k] = c) - 1

\* str < str : lexicographic by code point, a proper prefix is smaller.
RECURSIVE StrLess(_, _)
StrLess(a, b) ==
    IF b = <<>> THEN FALSE
    ELSE IF a = <<>> THEN TRUE
    ELSE IF a[1] # b[1] THEN Ord(a[1]) < Ord(b[1])
    ELSE StrLess(Tail(a), Tail(b))

\* str(n) for n >= 0
RECURSIVE IntToStr(_)
IntToStr(n) ==
    IF n < 10 THEN <<DigitChars[n + 1]>>
    ELSE IntToStr(n \div 10) \o <<DigitChars[(n % 10) + 1]>>

\* ---------------------------------------------------------------- str methods
\* line.strip()
RECURSIVE LStrip(_)
LStrip(s) ==
    IF s # <<>> /\ s[1] \in Whitespace THEN LStrip(Tail(s)) ELSE s

RECURSIVE RStrip(_)
RStrip(s) ==
    IF s # <<>> /\ s[Len(s)] \in Whitespace
    THEN RStrip(SubSeq(s, 1, Len(s) - 1)) ELSE s

Strip(s) == RStrip(LStrip(s))

\* line.split(): the maximal runs of non-whitespace characters, in order.
RECURSIVE SplitFrom(_, _, _)
SplitFrom(s, cur, acc) ==
    IF s = <<>> THEN (IF cur = <<>> THEN acc ELSE Append(acc, cur))
    ELSE IF s[1] \in Whitespace
         THEN SplitFrom(Tail(s), <<>>, IF cur = <<>> THEN acc ELSE Append(acc, cur))
         ELSE SplitFrom(Tail(s), Append(cur, s[1]), acc)

Split(s) == SplitFrom(s, <<>>, <<>>)

\* level.isupper(): at least one cased character and no lowercase one.
IsUpper(s) ==
    /\ \E k \in 1..Len(s) : s[k] \in UpperChars
    /\ \A k \in 1..Len(s) : s[k] \notin LowerChars

\* '=' in part ; part.split('=', 1)
HasEq(part) == \E k \in 1..Len(part) : part[k] = "="

FirstEq(part) == CHOOSE k \in 1..Len(part) :
                    part[k] = "=" /\ \A m \in 1..(k - 1) : part[m] # "="

\* ---------------------------------------------------------------- tokens
ERROR == <<"E", "R", "R", "O", "R">>
CRITICAL == <<"C", "R", "I", "T", "I", "C", "A", "L">>
INFO == <<"I", "N", "F", "O">>
KeyUser == <<"u", "s", "e", "r">>
KeyUserId == <<"u", "s", "e", "r", "_", "i", "d">>
KeyCode == <<"c", "o", "d", "e">>

DatePart == <<"2", "0", "2", "4", "-", "0", "1", "-", "0", "1">>
TimePart == <<"1", "0", ":", "0", "0", ":", "0">>

\* datetime.isoformat() / time.isoformat() of the instant ts seconds after
\* 2024-01-01T10:00:00 (0 <= ts <= 9).
IsoFormat(ts) == DatePart \o <<"T">> \o TimePart \o <<DigitChars[ts + 1]>>
TimeIsoFormat(ts) == TimePart \o <<DigitChars[ts + 1]>>
DateOf(ts) == DatePart

\* ---------------------------------------------------------------- dict
EmptyDict == [k \in {} |-> <<>>]

DictSet(d, key, value) ==
    [k \in (DOMAIN d) \cup {key} |-> IF k = key THEN value ELSE d[k]]

DictRemove(d, key) == [k \in (DOMAIN d) \ {key} |-> d[k]]

\* sorted(fields.items()): the (key, value) pairs by key ascending.
RECURSIVE SortedKeys(_)
SortedKeys(keys) ==
    IF keys = {} THEN <<>>
    ELSE LET least == CHOOSE k \in keys : \A m \in keys \ {k} : StrLess(k, m)
         IN  <<least>> \o SortedKeys(keys \ {least})

SortedItems(fields) ==
    LET ks == SortedKeys(DOMAIN fields)
    IN  [n \in 1..Len(ks) |-> <<ks[n], fields[ks[n]]>>]

\* int(s): optional sign, then digits that single underscores may separate.
\* Some(value), or None where int raises ValueError.
RECURSIVE DigitsValue(_, _)
DigitsValue(s, acc) ==
    IF s = <<>> THEN acc
    ELSE IF s[1] = "_" THEN DigitsValue(Tail(s), acc)
    ELSE DigitsValue(Tail(s), 10 * acc + DigitValue(s[1]))

IntOf(s) ==
    LET signed == s # <<>> /\ s[1] \in {"+", "-"}
        body == IF signed THEN Tail(s) ELSE s
        wellFormed ==
            /\ body # <<>>
            /\ IsDigit(body[1])
            /\ IsDigit(body[Len(body)])
            /\ \A k \in 1..Len(body) : IsDigit(body[k]) \/ body[k] = "_"
            /\ \A k \in 1..(Len(body) - 1) : ~(body[k] = "_" /\ body[k + 1] = "_")
    IN  IF ~wellFormed THEN None
        ELSE IF signed /\ s[1] = "-" THEN Some(0 - DigitsValue(body, 0))
        ELSE Some(DigitsValue(body, 0))

\* ---------------------------------------------------------------- helpers of compact_logs
\* datetime.fromisoformat on the model's timestamps: the text
\* 2024-01-01T10:00:0d is the instant d; any other text of the model's input
\* is no ISO-8601 date-time (ValueError -> None).
parse_timestamp(ts) ==
    IF /\ Len(ts) = 19
       /\ SubSeq(ts, 1, 18) = DatePart \o <<"T">> \o TimePart
       /\ IsDigit(ts[19])
    THEN Some(DigitValue(ts[19]))
    ELSE None

RECURSIVE parse_fields_from(_, _)
parse_fields_from(parts, fields) ==
    IF parts = <<>> THEN Some(fields)
    ELSE IF ~HasEq(parts[1]) THEN None
    ELSE LET part == parts[1]
             k == FirstEq(part)
             key == SubSeq(part, 1, k - 1)
             value == SubSeq(part, k + 1, Len(part))
         IN  parse_fields_from(Tail(parts), DictSet(fields, key, value))

parse_fields(parts) == parse_fields_from(parts, EmptyDict)

\* normalize_user_field without the rewrite of user_id: only the conflict is
\* detected.
normalize_user_field_keeps(fields) ==
    IF /\ KeyUserId \in DOMAIN fields
       /\ KeyUser \in DOMAIN fields
       /\ fields[KeyUser] # fields[KeyUserId]
    THEN None
    ELSE Some(fields)

\* normalize_user_field that also moves a lone user to user_id.
normalize_user_field_toggles(fields) ==
    IF KeyUserId \in DOMAIN fields
    THEN IF KeyUser \in DOMAIN fields /\ fields[KeyUser] # fields[KeyUserId]
         THEN None
         ELSE Some(DictSet(DictRemove(fields, KeyUserId), KeyUser, fields[KeyUserId]))
    ELSE IF KeyUser \in DOMAIN fields
    THEN Some(DictSet(DictRemove(fields, KeyUser), KeyUserId, fields[KeyUser]))
    ELSE Some(fields)

normalize_user_field(fields) ==
    IF KeyUserId \in DOMAIN fields
    THEN IF KeyUser \in DOMAIN fields /\ fields[KeyUser] # fields[KeyUserId]
         THEN None
         ELSE Some(DictSet(DictRemove(fields, KeyUserId), KeyUser, fields[KeyUserId]))
    ELSE Some(fields)

\* apply_code_override with `500 < code < 599`.
apply_code_override_open(level, fields) ==
    IF KeyCode \in DOMAIN fields
    THEN LET code == IntOf(fields[KeyCode])
         IN  IF ~IsNone(code) /\ 500 < Value(code) /\ Value(code) < 599
             THEN ERROR
             ELSE level
    ELSE level

apply_code_override(level, fields) ==
    IF KeyCode \in DOMAIN fields
    THEN LET code == IntOf(fields[KeyCode])
         IN  IF ~IsNone(code) /\ 500 <= Value(code) /\ Value(code) <= 599
             THEN ERROR
             ELSE level
    ELSE level

make_group_key(level, fields) == <<level, SortedItems(fields)>>

format_timestamp_range(start, end) ==
    LET start_str == IsoFormat(start)
        end_str == IF DateOf(start) = DateOf(end)
                   THEN TimeIsoFormat(end)
                   ELSE IsoFormat(end)
    IN  IF start = end THEN start_str ELSE start_str \o <<"~">> \o end_str

\* ' '.join(f"{k}={v}" for k, v in sorted(fields.items()))
RECURSIVE JoinFields(_)
JoinFields(items) ==
    IF items = <<>> THEN <<>>
    ELSE items[1][1] \o <<"=">> \o items[1][2]
         \o (IF Len(items) = 1 THEN <<>> ELSE <<" ">> \o JoinFields(Tail(items)))

format_output(start_ts, end_ts, level, fields, count) ==
    LET ts_range == format_timestamp_range(start_ts, end_ts)
        sorted_fields == JoinFields(SortedItems(fields))
        line == ts_range \o <<" ">> \o level \o <<" ">> \o sorted_fields
    IN  IF count = 1 THEN line
        ELSE line \o <<" ", "(", "x">> \o IntToStr(count) \o <<")">>

\* One iteration of the body of `for line in f` (lines 104-133): None where
\* the line is skipped by a `continue`, else the tuple appended to logs.
ParseLine(raw, line_idx) ==
    LET line == Strip(raw)
        parts == Split(line)
    IN  IF line = <<>> THEN None
        ELSE IF Len(parts) < 2 THEN None
        ELSE LET ts == parse_timestamp(parts[1])
                 level == parts[2]
             IN  IF IsNone(ts) THEN None
                 ELSE IF level = <<>> \/ ~IsUpper(level) THEN None
                 ELSE LET parsed == parse_fields(SubSeq(parts, 3, Len(parts)))
                      IN  IF IsNone(parsed) THEN None
                          ELSE LET fields == normalize_user_field(Value(parsed))
                               IN  IF IsNone(fields) THEN None
                                   ELSE Some([ts |-> Value(ts),
                                              level |-> apply_code_override(level, Value(fields)),
                                              fields |-> Value(fields),
                                              idx |-> line_idx])

\* ---------------------------------------------------------------- stages of compact_logs
\* groups[group_key].append(...) on an insertion-ordered dict, held as a
\* sequence of [key, logs] in first-insertion order.
GroupAppend(groups, rec) ==
    LET group_key == make_group_key(rec.level, rec.fields)
    IN  IF \E g \in 1..Len(groups) : groups[g].key = group_key
        THEN [g \in 1..Len(groups) |->
                IF groups[g].key = group_key
                THEN [groups[g] EXCEPT !.logs = Append(@, rec)]
                ELSE groups[g]]
        ELSE Append(groups, [key |-> group_key, logs |-> <<rec>>])

\* for ts, level, fields, idx in logs: ... (lines 139-141)
RECURSIVE GroupAll(_, _)
GroupAll(logs, groups) ==
    IF logs = <<>> THEN groups
    ELSE GroupAll(Tail(logs), GroupAppend(groups, logs[1]))

\* The inner while (lines 154-157): the first j past the window.
RECURSIVE ScanWindow(_, _, _)
ScanWindow(group_logs, j, window_end) ==
    IF j <= Len(group_logs) /\ group_logs[j].ts <= window_end
    THEN ScanWindow(group_logs, j + 1, window_end)
    ELSE j

\* WindowStep with `i = j + 1`: the record that closed a window is skipped.
WindowStepSkips(group_key, group_logs, i, dedup_window_seconds, error_threshold) ==
    LET window_end == group_logs[i].ts + dedup_window_seconds
        j == ScanWindow(group_logs, i + 1, window_end)
        window_group == SubSeq(group_logs, i, j - 1)
        level == group_key[1]
        count == Len(window_group)
        output_level == IF count >= error_threshold /\ level = ERROR
                        THEN CRITICAL ELSE level
    IN  [next |-> j + 1,
         entry |-> [start_ts |-> window_group[1].ts,
                    first_idx |-> window_group[1].idx,
                    output |-> format_output(window_group[1].ts, window_group[count].ts,
                                             output_level, window_group[1].fields, count),
                    end_ts |-> window_group[count].ts, count |-> count,
                    fields |-> window_group[1].fields, level |-> level,
                    output_level |-> output_level,
                    window_group |-> window_group]]

\* WindowStep with `len(window_group) > error_threshold`.
WindowStepStrict(group_key, group_logs, i, dedup_window_seconds, error_threshold) ==
    LET window_end == group_logs[i].ts + dedup_window_seconds
        j == ScanWindow(group_logs, i + 1, window_end)
        window_group == SubSeq(group_logs, i, j - 1)
        level == group_key[1]
        count == Len(window_group)
        output_level == IF count > error_threshold /\ level = ERROR
                        THEN CRITICAL ELSE level
    IN  [next |-> j,
         entry |-> [start_ts |-> window_group[1].ts,
                    first_idx |-> window_group[1].idx,
                    output |-> format_output(window_group[1].ts, window_group[count].ts,
                                             output_level, window_group[1].fields, count),
                    end_ts |-> window_group[count].ts, count |-> count,
                    fields |-> window_group[1].fields, level |-> level,
                    output_level |-> output_level,
                    window_group |-> window_group]]

\* One iteration of `while i < len(group_logs)` (lines 150-171): the entry
\* appended to compacted, with the locals it was computed from, and the next i.
WindowStep(group_key, group_logs, i, dedup_window_seconds, error_threshold) ==
    LET level == group_key[1]
        window_start == group_logs[i].ts
        window_end == window_start + dedup_window_seconds
        j == ScanWindow(group_logs, i + 1, window_end)
        window_group == SubSeq(group_logs, i, j - 1)
        start_ts == window_group[1].ts
        end_ts == window_group[Len(window_group)].ts
        fields == window_group[1].fields
        count == Len(window_group)
        first_idx == window_group[1].idx
        escalated == Len(window_group) >= error_threshold /\ level = ERROR
        output_level == IF escalated THEN CRITICAL ELSE level
        output == format_output(start_ts, end_ts, output_level, fields, count)
    IN  [next |-> j,
         entry |-> [start_ts |-> start_ts, first_idx |-> first_idx,
                    output |-> output, end_ts |-> end_ts, count |-> count,
                    fields |-> fields, level |-> level,
                    output_level |-> output_level,
                    window_group |-> window_group]]

\* The sort key without its second component: key=lambda x: x[0].
KeyLessEqStartOnly(a, b) == a.start_ts <= b.start_ts

\* compacted.sort(key=lambda x: (x[0], x[1])): a stable insertion sort.
KeyLessEq(a, b) ==
    \/ a.start_ts < b.start_ts
    \/ a.start_ts = b.start_ts /\ a.first_idx <= b.first_idx

RECURSIVE InsertSorted(_, _)
InsertSorted(sorted, e) ==
    IF sorted = <<>> THEN <<e>>
    ELSE IF KeyLessEq(sorted[Len(sorted)], e) THEN Append(sorted, e)
    ELSE Append(InsertSorted(SubSeq(sorted, 1, Len(sorted) - 1), e), sorted[Len(sorted)])

RECURSIVE SortFrom(_, _)
SortFrom(rest, sorted) ==
    IF rest = <<>> THEN sorted
    ELSE SortFrom(Tail(rest), InsertSorted(sorted, rest[1]))

SortCompacted(compacted) == SortFrom(compacted, <<>>)

\* ---------------------------------------------------------------- compact_logs as a function
RECURSIVE ReadAll(_, _, _)
ReadAll(lines, line_idx, logs) ==
    IF lines = <<>> THEN logs
    ELSE LET r == ParseLine(lines[1], line_idx)
         IN  IF IsNone(r) THEN ReadAll(Tail(lines), line_idx, logs)
             ELSE ReadAll(Tail(lines), line_idx + 1, Append(logs, Value(r)))

RECURSIVE WindowsOfGroup(_, _, _, _)
WindowsOfGroup(group, i, w, th) ==
    IF i > Len(group.logs) THEN <<>>
    ELSE LET step == WindowStep(group.key, group.logs, i, w, th)
         IN  <<step.entry>> \o WindowsOfGroup(group, step.next, w, th)

RECURSIVE WindowsOfGroups(_, _, _)
WindowsOfGroups(groups, w, th) ==
    IF groups = <<>> THEN <<>>
    ELSE WindowsOfGroup(groups[1], 1, w, th) \o WindowsOfGroups(Tail(groups), w, th)

\* The sorted list the generator yields from.
Compacted(lines, w, th) ==
    SortCompacted(WindowsOfGroups(GroupAll(ReadAll(lines, 0, <<>>), <<>>), w, th))

\* list(compact_logs(file, w, th)) for a readable file
CompactLogs(lines, w, th) ==
    LET c == Compacted(lines, w, th)
    IN  [k \in 1..Len(c) |-> c[k].output]

\* ---------------------------------------------------------------- state
VARIABLES
    file,                   \* the lines of the file at file_path
    dedup_window_seconds,
    error_threshold,
    pc,                     \* where compact_logs is
    pos,                    \* the next line `for line in f` reads (1-based)
    line_idx,
    logs,
    groups,
    gi,                     \* position of `for ... in groups.items()` (1-based)
    i,                      \* i of the while loop (1-based)
    compacted,
    yi,                     \* position of `for _, _, output in compacted`
    out                     \* the strings yielded so far

vars == <<file, dedup_window_seconds, error_threshold, pc, pos, line_idx, logs,
          groups, gi, i, compacted, yi, out>>

params == <<file, dedup_window_seconds, error_threshold>>

\* All sequences over S of length at most n.
SeqsUpTo(S, n) == UNION {[1..m -> S] : m \in 0..n}

InitFrom(pool) ==
    /\ file \in SeqsUpTo(pool, MaxLines)
    /\ dedup_window_seconds \in 0..MaxWindow
    /\ error_threshold \in 1..MaxThreshold
    /\ pc = "open"
    /\ pos = 1
    /\ line_idx = 0
    /\ logs = <<>>
    /\ groups = <<>>
    /\ gi = 1
    /\ i = 1
    /\ compacted = <<>>
    /\ yi = 1
    /\ out = <<>>

\* ---------------------------------------------------------------- actions
\* with open(file_path, 'r') as f: line_idx = 0
Open ==
    /\ pc = "open"
    /\ pc' = "read"
    /\ line_idx' = 0
    /\ UNCHANGED <<params, pos, logs, groups, gi, i, compacted, yi, out>>

\* except (IOError, OSError): return
OpenFails ==
    /\ pc = "open"
    /\ pc' = "failed"
    /\ UNCHANGED <<params, pos, line_idx, logs, groups, gi, i, compacted, yi, out>>

\* ReadLine with `line_idx += 1` before the checks: a skipped line consumes
\* an index.
ReadLineCountsAll ==
    /\ pc = "read"
    /\ pos <= Len(file)
    /\ LET r == ParseLine(file[pos], line_idx)
       IN  IF IsNone(r)
           THEN UNCHANGED logs
           ELSE logs' = Append(logs, Value(r))
    /\ line_idx' = line_idx + 1
    /\ pos' = pos + 1
    /\ UNCHANGED <<params, pc, groups, gi, i, compacted, yi, out>>

\* One iteration of `for line in f`.
ReadLine ==
    /\ pc = "read"
    /\ pos <= Len(file)
    /\ LET r == ParseLine(file[pos], line_idx)
       IN  IF IsNone(r)
           THEN UNCHANGED <<logs, line_idx>>
           ELSE /\ logs' = Append(logs, Value(r))
                /\ line_idx' = line_idx + 1
    /\ pos' = pos + 1
    /\ UNCHANGED <<params, pc, groups, gi, i, compacted, yi, out>>

\* End of file; groups are built from logs (lines 137-141).
GroupLogs ==
    /\ pc = "read"
    /\ pos > Len(file)
    /\ groups' = GroupAll(logs, <<>>)
    /\ pc' = "window"
    /\ gi' = 1
    /\ i' = 1
    /\ compacted' = <<>>
    /\ UNCHANGED <<params, pos, line_idx, logs, yi, out>>

\* One iteration of the while loop of the current group; the for loop moves
\* to the next group when the while loop ends.
Window ==
    /\ pc = "window"
    /\ gi <= Len(groups)
    /\ LET step == WindowStep(groups[gi].key, groups[gi].logs, i,
                              dedup_window_seconds, error_threshold)
       IN  /\ compacted' = Append(compacted, step.entry)
           /\ IF step.next <= Len(groups[gi].logs)
              THEN i' = step.next /\ gi' = gi
              ELSE i' = 1 /\ gi' = gi + 1
    /\ UNCHANGED <<params, pc, pos, line_idx, logs, groups, yi, out>>

\* compacted.sort(...)
Sort ==
    /\ pc = "window"
    /\ gi > Len(groups)
    /\ compacted' = SortCompacted(compacted)
    /\ pc' = "yield"
    /\ yi' = 1
    /\ UNCHANGED <<params, pos, line_idx, logs, groups, gi, i, out>>

\* yield output
Yield ==
    /\ pc = "yield"
    /\ yi <= Len(compacted)
    /\ out' = Append(out, compacted[yi].output)
    /\ yi' = yi + 1
    /\ UNCHANGED <<params, pc, pos, line_idx, logs, groups, gi, i, compacted>>

\* The generator is exhausted.
Finish ==
    /\ pc = "yield"
    /\ yi > Len(compacted)
    /\ pc' = "done"
    /\ UNCHANGED <<params, pos, line_idx, logs, groups, gi, i, compacted, yi, out>>

Next ==
    \/ Open
    \/ OpenFails
    \/ ReadLine
    \/ GroupLogs
    \/ Window
    \/ Sort
    \/ Yield
    \/ Finish

\* ---------------------------------------------------------------- inputs
Sp == <<" ">>
Nl == <<"\n">>

\* The line `<timestamp> <level><rest>` with its newline.
Text(t, level, rest) == IsoFormat(t) \o Sp \o level \o rest \o Nl

LineBlank == <<" ", "\n">>
LineOneToken == ERROR \o Nl
LineNotALog ==
    <<"n", "o", "t", " ", "a", " ", "v", "a", "l", "i", "d", " ", "l", "o", "g",
      " ", "l", "i", "n", "e", "\n">>

\* Records of two groups at every timestamp of the model, and a malformed
\* line.
WindowPool ==
    {Text(t, lv, <<>>) : t \in 0..MaxTs, lv \in {ERROR, INFO}} \cup {LineNotALog}

Init == InitFrom(WindowPool)

Spec == Init /\ [][Next]_vars
LineLowerLevel == Text(0, <<"e", "r", "r", "o", "r">>, <<>>)
LineDigitLevel == Text(0, ERROR \o <<"1">>, <<>>)
LineNoEq == Text(0, ERROR, Sp \o KeyUser)
LineConflict ==
    Text(0, ERROR, Sp \o KeyUser \o <<"=", "1">> \o Sp \o KeyUserId \o <<"=", "2">>)

\* Two well-formed lines and one line of every kind the parser may reject.
ParsePool ==
    {Text(0, ERROR, <<>>), Text(1, ERROR, <<>>), LineBlank, LineOneToken,
     LineNotALog, LineLowerLevel, LineDigitLevel, LineNoEq, LineConflict}

InitParse == InitFrom(ParsePool)

SpecParse == InitParse /\ [][Next]_vars

CodeField(v) == Sp \o KeyCode \o <<"=">> \o v
LineInfo500 == Text(0, INFO, CodeField(<<"5", "0", "0">>))
LineError500 == Text(1, ERROR, CodeField(<<"5", "0", "0">>))
LineInfo599 == Text(0, INFO, CodeField(<<"5", "9", "9">>))
LineInfo499 == Text(0, INFO, CodeField(<<"4", "9", "9">>))
LineInfo600 == Text(0, INFO, CodeField(<<"6", "0", "0">>))
LineInfoAbc == Text(0, INFO, CodeField(<<"a", "b", "c">>))
LineUserId42 == Text(0, INFO, Sp \o KeyUserId \o <<"=", "4", "2">>)
LineUser42 == Text(1, INFO, Sp \o KeyUser \o <<"=", "4", "2">>)
LineBoth42 ==
    Text(0, INFO, Sp \o KeyUser \o <<"=", "4", "2">> \o Sp \o KeyUserId \o <<"=", "4", "2">>)
LineInfoConflict ==
    Text(1, INFO, Sp \o KeyUser \o <<"=", "1">> \o Sp \o KeyUserId \o <<"=", "2">>)

\* Lines that differ in level and in the code field.
CodePool ==
    {LineInfo500, LineError500, LineInfo599, LineInfo499, LineInfo600,
     LineInfoAbc}

InitCode == InitFrom(CodePool)

SpecCode == InitCode /\ [][Next]_vars

\* Lines of one level that differ in how they name the user.
UserPool ==
    {LineUserId42, LineUser42, LineBoth42, LineInfoConflict, Text(1, INFO, <<>>)}

InitUser == InitFrom(UserPool)

SpecUser == InitUser /\ [][Next]_vars

\* The run of the state machine computes compact_logs.
RunIsCompactLogs ==
    pc = "done" => out = CompactLogs(file, dedup_window_seconds, error_threshold)

\* ---------------------------------------------------------------- properties
Emitted == pc \in {"yield", "done"}

Accepts(raw) == ~IsNone(ParseLine(raw, 0))

\* The lines read so far that were accepted: logs[k] was made from the k-th.
AcceptedRead == SelectSeq(SubSeq(file, 1, pos - 1), Accepts)

\* The level written on a line.
LevelToken(raw) == Split(Strip(raw))[2]

\* The positions of the lines of the file that are accepted.
AcceptedPositions == {p \in 1..Len(file) : ~IsNone(ParseLine(file[p], 0))}

RECURSIVE SumCounts(_)
SumCounts(entries) ==
    IF entries = <<>> THEN 0 ELSE entries[1].count + SumCounts(Tail(entries))

MemberTimes(e) == {e.window_group[m].ts : m \in 1..Len(e.window_group)}
MinTime(e) == CHOOSE t \in MemberTimes(e) : \A u \in MemberTimes(e) : t <= u
MaxTime(e) == CHOOSE t \in MemberTimes(e) : \A u \in MemberTimes(e) : u <= t

\* C1 (conservation): once the windows are formed, every accepted record
\* (one per accepted line of the file) is a member of exactly one window,
\* every window has exactly one Summary whose count is its number of members,
\* the counts add up to the number of accepted records, and when the
\* generator is exhausted one line per Summary has been emitted.
C1_Conservation ==
    /\ Emitted =>
        /\ Len(logs) = Cardinality(AcceptedPositions)
        /\ \A k \in 1..Len(logs) :
              Cardinality({c \in 1..Len(compacted) :
                  \E m \in 1..Len(compacted[c].window_group) :
                      compacted[c].window_group[m] = logs[k]}) = 1
        /\ \A c \in 1..Len(compacted) :
              compacted[c].count = Len(compacted[c].window_group)
        /\ SumCounts(compacted) = Len(logs)
    /\ pc = "done" => Len(out) = Len(compacted)

\* Three accepted records in two windows, and a file with a skipped line.
C1_Witness ==
    /\ pc = "done"
    /\ \/ /\ Len(logs) = 3
          /\ \E c \in 1..Len(compacted) : compacted[c].count = 2
          /\ \E c \in 1..Len(compacted) : compacted[c].count = 1
       \/ /\ Len(file) = 3
          /\ Len(logs) = 2
          /\ Len(compacted) = 1

\* C2 (window non-overlap), as claimed: in every input order, each member's
\* timestamp lies in [window_start, window_start + dedup_window_seconds] and
\* two windows of one group have disjoint member timestamp ranges.
C2_WindowNonOverlap ==
    Emitted =>
        /\ \A c \in 1..Len(compacted) : \A t \in MemberTimes(compacted[c]) :
              /\ compacted[c].start_ts <= t
              /\ t <= compacted[c].start_ts + dedup_window_seconds
        /\ \A c, d \in 1..Len(compacted) :
              (c # d /\ compacted[c].level = compacted[d].level
                     /\ compacted[c].fields = compacted[d].fields)
              => \/ MaxTime(compacted[c]) < MinTime(compacted[d])
                 \/ MaxTime(compacted[d]) < MinTime(compacted[c])

\* C3 (ordering): the list the generator yields from is sorted by
\* (start timestamp, first sequence index), and the emitted lines are its
\* outputs in that order.
C3_Ordering ==
    Emitted =>
        /\ \A c \in 1..(Len(compacted) - 1) :
              \/ compacted[c].start_ts < compacted[c + 1].start_ts
              \/ /\ compacted[c].start_ts = compacted[c + 1].start_ts
                 /\ compacted[c].first_idx < compacted[c + 1].first_idx
        /\ \A c \in 1..Len(compacted) :
              \A m \in 1..Len(compacted[c].window_group) :
                  compacted[c].first_idx <= compacted[c].window_group[m].idx
        /\ Len(out) = yi - 1
        /\ \A k \in 1..Len(out) : out[k] = compacted[k].output

\* Two Summaries with equal start whose windows were formed in the other
\* order than their first members appeared in the input.
C3_Witness ==
    /\ pc = "done"
    /\ Len(out) = 3
    /\ compacted[2].start_ts = compacted[3].start_ts
    /\ compacted[2].level # compacted[1].level
    /\ compacted[3].level = compacted[1].level

\* The level an output line displays: its second token.
DisplayedLevel(output) == Split(output)[2]

\* C4 (escalation threshold): a window of an ERROR group displays CRITICAL
\* iff its count is at least error_threshold, and a window of any other group
\* displays the group's level.
C4_Escalation ==
    \A c \in 1..Len(compacted) :
        LET e == compacted[c]
            shown == DisplayedLevel(e.output)
        IN  /\ (e.level = ERROR /\ e.count >= error_threshold) => shown = CRITICAL
            /\ (e.level = ERROR /\ e.count < error_threshold) => shown = ERROR
            /\ e.level # ERROR => shown = e.level

\* A window that meets the threshold and one that misses it by one, of
\* groups that have level ERROR by the code override.
C4_Witness ==
    /\ pc = "done"
    /\ \A k \in 1..Len(logs) : LevelToken(AcceptedRead[k]) = INFO
    /\ \E c \in 1..Len(compacted) :
          /\ compacted[c].level = ERROR
          /\ compacted[c].count = error_threshold
          /\ DisplayedLevel(compacted[c].output) = CRITICAL
    /\ \E c \in 1..Len(compacted) :
          /\ compacted[c].level = ERROR
          /\ compacted[c].count = error_threshold - 1
          /\ DisplayedLevel(compacted[c].output) = ERROR

\* The reference windower of C5: each group's members sorted by
\* (timestamp, sequence index) before the greedy walk.
RecLessEq(a, b) == a.ts < b.ts \/ (a.ts = b.ts /\ a.idx <= b.idx)

RECURSIVE InsertRec(_, _)
InsertRec(sorted, r) ==
    IF sorted = <<>> THEN <<r>>
    ELSE IF RecLessEq(sorted[Len(sorted)], r) THEN Append(sorted, r)
    ELSE Append(InsertRec(SubSeq(sorted, 1, Len(sorted) - 1), r), sorted[Len(sorted)])

RECURSIVE SortRecs(_, _)
SortRecs(rest, sorted) ==
    IF rest = <<>> THEN sorted ELSE SortRecs(Tail(rest), InsertRec(sorted, rest[1]))

ReferenceSummaries(lines, w, th) ==
    LET gs == GroupAll(ReadAll(lines, 0, <<>>), <<>>)
        sortedGroups == [g \in 1..Len(gs) |->
                            [gs[g] EXCEPT !.logs = SortRecs(@, <<>>)]]
    IN  SortCompacted(WindowsOfGroups(sortedGroups, w, th))

SummaryOf(e) ==
    [start |-> e.start_ts, end |-> e.end_ts, count |-> e.count,
     level |-> e.output_level, fields |-> e.fields,
     first_sequence_index |-> e.first_idx]

\* C5 (sort before windowing), as claimed: the Summaries are those of the
\* reference windower, and each has start = least and end = greatest member
\* timestamp.
C5_SortBeforeWindowing ==
    Emitted =>
        LET ref == ReferenceSummaries(file, dedup_window_seconds, error_threshold)
        IN  /\ Len(compacted) = Len(ref)
            /\ \A c \in 1..Len(compacted) :
                  /\ c <= Len(ref) => SummaryOf(compacted[c]) = SummaryOf(ref[c])
                  /\ compacted[c].start_ts = MinTime(compacted[c])
                  /\ compacted[c].end_ts = MaxTime(compacted[c])

\* ---------------------------------------------------------------- properties of parsing
RemoveAt(seq, p) == SubSeq(seq, 1, p - 1) \o SubSeq(seq, p + 1, Len(seq))

\* A blank line, a line of one token, the malformed line of Example 4, a
\* lowercase level, a field token without '=', and user and user_id that differ.
MalformedLines ==
    {LineBlank, LineOneToken, LineNotALog, LineLowerLevel, LineNoEq, LineConflict}

\* C8 (discards are silent): a line the parser skips leaves logs and the
\* sequence index as they were (the indices of the accepted records are
\* 0, 1, 2, ... without gaps), is a member of no window, and the output is
\* the output of the file without that line.
C8_DiscardsSilent ==
    /\ pc # "open" =>
        /\ Len(logs) = Len(AcceptedRead)
        /\ line_idx = Len(logs)
        /\ \A k \in 1..Len(logs) : logs[k].idx = k - 1
    /\ \A p \in 1..Len(file) : file[p] \in MalformedLines => ~Accepts(file[p])
    /\ Emitted => SumCounts(compacted) = Cardinality(AcceptedPositions)
    /\ pc = "done" =>
        \A p \in 1..Len(file) :
            ~Accepts(file[p]) =>
                out = CompactLogs(RemoveAt(file, p), dedup_window_seconds,
                                  error_threshold)

\* A malformed line between two accepted ones.
C8_Witness ==
    /\ pc = "done"
    /\ Len(file) = 3
    /\ Accepts(file[1])
    /\ file[2] \in MalformedLines
    /\ Accepts(file[3])
    /\ logs[2].idx = 1
    /\ Len(out) >= 1

\* C9 (level validation), as claimed: the level token of every accepted line
\* is non-empty and made of uppercase letters only.
C9_LevelValidation ==
    LET accepted == AcceptedRead
    IN  \A k \in 1..Len(accepted) :
            LET level == LevelToken(accepted[k])
            IN  /\ level # <<>>
                /\ \A n \in 1..Len(level) : level[n] \in UpperChars

\* ---------------------------------------------------------------- properties of normalization
RawFields(raw) ==
    LET parts == Split(Strip(raw))
    IN  Value(parse_fields(SubSeq(parts, 3, Len(parts))))

\* The text is an integer in [500, 599].
IsServerError(text) ==
    /\ ~IsNone(IntOf(text))
    /\ Value(IntOf(text)) \in 500..599

HasServerError(fields) ==
    KeyCode \in DOMAIN fields /\ IsServerError(fields[KeyCode])

\* C6 (code override before grouping): an accepted record whose code is an
\* integer in [500, 599] has level ERROR; any other accepted record keeps the
\* level of its line; the code field is the one written on the line; and a
\* group whose fields carry such a code has level ERROR in its key, so that
\* there is one group per such field set.
C6_CodeOverride ==
    /\ LET accepted == AcceptedRead
       IN  \A k \in 1..Len(logs) :
              LET raw == accepted[k]
                  written == RawFields(raw)
                  rec == logs[k]
              IN  /\ HasServerError(written) => rec.level = ERROR
                  /\ ~HasServerError(written) => rec.level = LevelToken(raw)
                  /\ KeyCode \in DOMAIN written =>
                        /\ KeyCode \in DOMAIN rec.fields
                        /\ rec.fields[KeyCode] = written[KeyCode]
    /\ \A g \in 1..Len(groups) :
          /\ HasServerError(groups[g].logs[1].fields) => groups[g].key[1] = ERROR
          /\ \A h \in 1..Len(groups) :
                (g # h /\ HasServerError(groups[g].logs[1].fields))
                => groups[g].logs[1].fields # groups[h].logs[1].fields
    /\ \A c \in 1..Len(compacted) :
          HasServerError(compacted[c].fields) => compacted[c].level = ERROR

\* INFO code=500 and ERROR code=500 counted together in one window:
\* 2024-01-01T10:00:00~10:00:01 CRITICAL code=500 (x2)
C6_Witness ==
    /\ pc = "done"
    /\ file = <<LineInfo500, LineError500>>
    /\ dedup_window_seconds = 1
    /\ Len(compacted) = 1
    /\ compacted[1].count = 2
    /\ compacted[1].level = ERROR
    /\ out = <<IsoFormat(0) \o <<"~">> \o TimeIsoFormat(1) \o Sp \o CRITICAL
               \o CodeField(<<"5", "0", "0">>) \o Sp \o <<"(", "x", "2", ")">> >>

\* The line with every user_id=v token written user=v.
RECURSIVE JoinTokens(_)
JoinTokens(tokens) ==
    IF tokens = <<>> THEN <<>>
    ELSE tokens[1] \o (IF Len(tokens) = 1 THEN <<>> ELSE Sp \o JoinTokens(Tail(tokens)))

AsUserToken(token) ==
    IF HasEq(token) /\ SubSeq(token, 1, FirstEq(token) - 1) = KeyUserId
    THEN KeyUser \o SubSeq(token, FirstEq(token), Len(token))
    ELSE token

WrittenWithUser(raw) ==
    LET parts == Split(Strip(raw))
    IN  IF Accepts(raw)
        THEN JoinTokens([n \in 1..Len(parts) |-> AsUserToken(parts[n])]) \o Nl
        ELSE raw

FieldKeys(output) ==
    LET parts == Split(output)
    IN  {SubSeq(parts[n], 1, FirstEq(parts[n]) - 1) :
            n \in {m \in 3..Len(parts) : HasEq(parts[m])}}

\* C7 (canonical user key): no record, Summary or output line has a field
\* user_id, and the output is that of the file in which every accepted line
\* has its user_id=v written user=v.
C7_CanonicalUser ==
    /\ \A k \in 1..Len(logs) : KeyUserId \notin DOMAIN logs[k].fields
    /\ \A g \in 1..Len(groups) :
          \A n \in 1..Len(groups[g].key[2]) : groups[g].key[2][n][1] # KeyUserId
    /\ \A c \in 1..Len(compacted) : KeyUserId \notin DOMAIN compacted[c].fields
    /\ \A k \in 1..Len(out) : KeyUserId \notin FieldKeys(out[k])
    /\ pc = "done" =>
          out = CompactLogs([p \in 1..Len(file) |-> WrittenWithUser(file[p])],
                            dedup_window_seconds, error_threshold)

\* Example 2 of the specification, with timestamps one second apart:
\* 2024-01-01T10:00:00~10:00:01 INFO user=42 (x2)
C7_Witness ==
    /\ pc = "done"
    /\ file = <<LineUserId42, LineUser42>>
    /\ dedup_window_seconds = 1
    /\ out = <<IsoFormat(0) \o <<"~">> \o TimeIsoFormat(1) \o Sp \o INFO \o Sp
               \o KeyUser \o <<"=", "4", "2">> \o Sp \o <<"(", "x", "2", ")">> >>

\* C10 (idempotence of normalization): normalizing the field mapping of an
\* accepted record, which normalization produced, is not invalid and yields
\* the same mapping.
C10_Idempotence ==
    LET accepted == AcceptedRead
    IN  \A k \in 1..Len(logs) :
            LET once == normalize_user_field(RawFields(accepted[k]))
                twice == normalize_user_field(Value(once))
            IN  /\ ~IsNone(once)
                /\ ~IsNone(twice)
                /\ Value(twice) = Value(once)

\* A record made from a line with user_id (normalization rewrote it).
C10_Witness ==
    /\ pc = "done"
    /\ LET accepted == AcceptedRead
       IN  /\ \E k \in 1..Len(logs) :
                 /\ DOMAIN RawFields(accepted[k]) = {KeyUserId}
                 /\ DOMAIN logs[k].fields = {KeyUser}
           /\ \E k \in 1..Len(logs) :
                 DOMAIN RawFields(accepted[k]) = {KeyUser, KeyUserId}

====
